---- MODULE Spec2Model ----
(***************************************************************************)
(* Model of crates/polars-arrow/src/io/ipc/read/common.rs: the projection  *)
(* iterator, read_record_batch, first_dict_field / read_dictionary,        *)
(* prepare_projection and apply_projection.                                *)
(***************************************************************************)
EXTENDS Integers, Sequences, FiniteSets, TLC

VARIABLES fields, ipc_fields, dictionaries, plan, chunk, applied, tagged, dict_ret

vars == <<fields, ipc_fields, dictionaries, plan, chunk, applied, tagged, dict_ret>>

(* ------------------------------ bounds --------------------------------- *)

\* longest projection / requested index list that is enumerated
MaxProj == 3
\* longest source sequence handed to ProjectionIter
MaxSrc == 4
\* largest position that may appear in a projection handed to ProjectionIter
MaxPos == 3

(* ------------------------------ helpers -------------------------------- *)

Range(s) == {s[i] : i \in 1..Len(s)}

SeqsUpTo(S, n) == UNION {[1..k -> S] : k \in 0..n}

StrictlyIncreasing(s) == \A i \in 1..Len(s) : \A j \in 1..Len(s) : i < j => s[i] < s[j]

Min(a, b) == IF a < b THEN a ELSE b

\* marker of a result variable whose operation has not been called yet
NotCalled == [op |-> "none"]

\* Option<T>: <<>> is None, <<x>> is Some(x)
Some(x) == <<x>>
Absent == <<>>

(* --------------------------- ProjectionIter ---------------------------- *)

\* ProjectionIter::new: &projection[1..] and projection[0] panic on an empty slice
IterNew(projection, iter) ==
    IF Len(projection) = 0
    THEN [panicked |-> TRUE,
          it |-> [projection |-> <<>>, iter |-> iter,
                  current_count |-> 0, current_projection |-> 0]]
    ELSE [panicked |-> FALSE,
          it |-> [projection |-> Tail(projection), iter |-> iter,
                  current_count |-> 0, current_projection |-> projection[1]]]

\* a bug variant: the position counter advances on Selected items only
IterNextCountOnSelected(it) ==
    IF it.iter = <<>>
    THEN [panicked |-> FALSE, it |-> it, res |-> <<>>]
    ELSE LET item == Head(it.iter)
             rest == Tail(it.iter)
         IN IF it.current_count = it.current_projection
            THEN IF it.projection # <<>>
                 THEN IF ~(it.projection[1] > it.current_projection)
                      THEN [panicked |-> TRUE, it |-> [it EXCEPT !.iter = rest], res |-> <<>>]
                      ELSE [panicked |-> FALSE,
                            it |-> [projection |-> Tail(it.projection), iter |-> rest,
                                    current_count |-> it.current_count + 1,
                                    current_projection |-> it.projection[1]],
                            res |-> <<[tag |-> "Selected", item |-> item]>>]
                 ELSE [panicked |-> FALSE,
                       it |-> [projection |-> <<>>, iter |-> rest,
                               current_count |-> it.current_count + 1,
                               current_projection |-> 0],
                       res |-> <<[tag |-> "Selected", item |-> item]>>]
            ELSE [panicked |-> FALSE,
                  it |-> [it EXCEPT !.iter = rest],
                  res |-> <<[tag |-> "NotSelected", item |-> item]>>]

\* ProjectionIter::next: res is <<>> for None, <<tagged item>> for Some
IterNext(it) ==
    IF it.iter = <<>>
    THEN [panicked |-> FALSE, it |-> it, res |-> <<>>]
    ELSE LET item == Head(it.iter)
             rest == Tail(it.iter)
         IN IF it.current_count = it.current_projection
            THEN IF it.projection # <<>>
                 THEN IF ~(it.projection[1] > it.current_projection)
                      THEN [panicked |-> TRUE, it |-> [it EXCEPT !.iter = rest], res |-> <<>>]
                      ELSE [panicked |-> FALSE,
                            it |-> [projection |-> Tail(it.projection), iter |-> rest,
                                    current_count |-> it.current_count + 1,
                                    current_projection |-> it.projection[1]],
                            res |-> <<[tag |-> "Selected", item |-> item]>>]
                 ELSE [panicked |-> FALSE,
                       it |-> [projection |-> <<>>, iter |-> rest,
                               current_count |-> it.current_count + 1,
                               current_projection |-> 0],
                       res |-> <<[tag |-> "Selected", item |-> item]>>]
            ELSE [panicked |-> FALSE,
                  it |-> [it EXCEPT !.iter = rest, !.current_count = @ + 1],
                  res |-> <<[tag |-> "NotSelected", item |-> item]>>]

RECURSIVE IterDrain(_, _)
\* iter.collect(): call next until None (or a panic)
IterDrain(it, acc) ==
    LET n == IterNext(it)
    IN IF n.panicked THEN [panicked |-> TRUE, out |-> acc]
       ELSE IF n.res = <<>> THEN [panicked |-> FALSE, out |-> acc]
       ELSE IterDrain(n.it, acc \o n.res)

\* tests::project_iter: ProjectionIter::new(projection, iter).collect()
IterCollect(projection, iter) ==
    LET new == IterNew(projection, iter)
    IN IF new.panicked THEN [panicked |-> TRUE, out |-> <<>>]
       ELSE IterDrain(new.it, <<>>)

\* the source sequences of the form 1..n used by tests::project_iter
Source(n) == [i \in 1..n |-> i]

(* ------------------------- schema and batches --------------------------- *)

\* crate::datatypes::Field (name and data type)
Field(name, dtype) == [name |-> name, dtype |-> dtype]

\* ArrowDataType: kind, child fields, and the value type of a Dictionary
DType(kind, children, inner) == [kind |-> kind, fields |-> children, inner |-> inner]

\* IpcField: optional dictionary id and the child metadata nodes
IpcField(dictionary_id, children) == [dictionary_id |-> dictionary_id, fields |-> children]

Int32 == DType("Int32", <<>>, <<>>)
Utf8View == DType("Utf8View", <<>>, <<>>)
StructOf(children) == DType("Struct", children, <<>>)
UnionOf(children) == DType("Union", children, <<>>)
ListOf(child) == DType("List", <<child>>, <<>>)
MapOf(child) == DType("Map", <<child>>, <<>>)
FixedSizeListOf(child) == DType("FixedSizeList", <<child>>, <<>>)
DictionaryOf(values) == DType("Dictionary", <<>>, <<values>>)

\* PolarsError values: out-of-spec (format violation), unsupported, and the
\* opaque errors of the per-type read / skip
Oos(kind) == [class |-> "oos", kind |-> kind, at |-> -1]
ComputeError(kind) == [class |-> "compute", kind |-> kind, at |-> -1]
DecodeErr(op, at) == [class |-> "decode", kind |-> op, at |-> at]
NoErr == [class |-> "none", kind |-> "none", at |-> -1]

\* RecordBatchT: length, schema and arrays
RowBatch(length, schema, arrays) == [length |-> length, schema |-> schema, arrays |-> arrays]
NoBatch == RowBatch(-1, <<>>, <<>>)

ZeroCursor == [nodes |-> 0, buffers |-> 0, variadic |-> 0]
AddCursor(a, b) == [nodes |-> a.nodes + b.nodes, buffers |-> a.buffers + b.buffers,
                    variadic |-> a.variadic + b.variadic]

RECURSIVE Consumes(_)
RECURSIVE ConsumesAll(_)
\* how many field nodes, buffers and variadic counts one field takes from the queues
Consumes(dtype) ==
    CASE dtype.kind = "Int32" -> [nodes |-> 1, buffers |-> 2, variadic |-> 0]
      [] dtype.kind = "Utf8View" -> [nodes |-> 1, buffers |-> 2, variadic |-> 1]
      [] dtype.kind = "Dictionary" -> [nodes |-> 1, buffers |-> 2, variadic |-> 0]
      [] dtype.kind = "Struct" ->
            AddCursor([nodes |-> 1, buffers |-> 1, variadic |-> 0], ConsumesAll(dtype.fields))
      [] dtype.kind = "Union" ->
            AddCursor([nodes |-> 1, buffers |-> 1, variadic |-> 0], ConsumesAll(dtype.fields))
      [] OTHER ->
            AddCursor([nodes |-> 1, buffers |-> 2, variadic |-> 0], ConsumesAll(dtype.fields))

ConsumesAll(children) ==
    IF children = <<>> THEN ZeroCursor
    ELSE AddCursor(Consumes(Head(children).dtype), ConsumesAll(Tail(children)))

\* deserialize::read on the field at position `at` (0-based): an array, or an error
Read(batch, at, field, limit, cur) ==
    IF batch.cols[at + 1] = "ok"
    THEN [ok |-> TRUE, err |-> NoErr,
          array |-> [of |-> field.name,
                     len |-> IF limit = Absent THEN batch.rows ELSE Min(batch.rows, limit[1]),
                     data |-> batch.data],
          cur |-> AddCursor(cur, Consumes(field.dtype))]
    ELSE [ok |-> FALSE, err |-> DecodeErr("read", at),
          array |-> [of |-> field.name, len |-> 0, data |-> batch.data], cur |-> cur]

\* deserialize::skip on the field at position `at`: consumes what read consumes
Skip(batch, at, field, cur) ==
    IF batch.cols[at + 1] \in {"ok", "bad_data"}
    THEN [ok |-> TRUE, err |-> NoErr, cur |-> AddCursor(cur, Consumes(field.dtype))]
    ELSE [ok |-> FALSE, err |-> DecodeErr("skip", at), cur |-> cur]

\* Schema::try_project_indices: the fields at the given positions, Err when out of bounds
TryProjectIndices(schema, indices) ==
    IF \E i \in 1..Len(indices) : indices[i] >= Len(schema)
    THEN [ok |-> FALSE, schema |-> <<>>]
    ELSE [ok |-> TRUE, schema |-> [i \in 1..Len(indices) |-> schema[indices[i] + 1]]]

\* RecordBatchT::try_new: one array per schema field, every array of the batch's length
TryNew(length, schema, arrays) ==
    IF Len(schema) # Len(arrays)
    THEN [ok |-> FALSE, err |-> ComputeError("fields_vs_arrays"), batch |-> NoBatch]
    ELSE IF \E i \in 1..Len(arrays) : arrays[i].len # length
    THEN [ok |-> FALSE, err |-> ComputeError("unequal_rows"), batch |-> NoBatch]
    ELSE [ok |-> TRUE, err |-> NoErr, batch |-> RowBatch(length, schema, arrays)]

(* --------------------------- read_record_batch ------------------------- *)

\* width of the scaled-down machine word standing for the 64 bits of u64 / i64
WordBits == 3
U64Modulus == 2 ^ WordBits
U64Max == U64Modulus - 1
I64Max == 2 ^ (WordBits - 1) - 1

\* outcomes of read_record_batch: a Row Batch, a reported error, or a panic
Returned(b, trace) == [status |-> "ok", err |-> NoErr, batch |-> b, trace |-> trace]
Failed(e, trace) == [status |-> "err", err |-> e, batch |-> NoBatch, trace |-> trace]
Panicked(trace) == [status |-> "panic", err |-> NoErr, batch |-> NoBatch, trace |-> trace]

RECURSIVE SumBuffers(_, _, _)
\* buffers.iter().map(length.try_into::<u64>()).sum::<PolarsResult<u64>>():
\* stops at the first negative length; an overflowing + panics when the build
\* has overflow checks and wraps otherwise
SumBuffers(buffers, acc, overflow_checks) ==
    IF buffers = <<>> THEN [status |-> "ok", value |-> acc]
    ELSE IF Head(buffers) < 0 THEN [status |-> "err", value |-> acc]
    ELSE IF acc + Head(buffers) > U64Max /\ overflow_checks
    THEN [status |-> "panic", value |-> acc]
    ELSE SumBuffers(Tail(buffers), (acc + Head(buffers)) % U64Modulus, overflow_checks)

\* the (field, ipc_field) pairs of fields.iter_values().zip(ipc_schema.fields.iter())
ZipFields(fs, ipcs) ==
    [i \in 1..Min(Len(fs), Len(ipcs)) |-> [at |-> i - 1, field |-> fs[i], ipc_field |-> ipcs[i]]]

\* the closure applied to a field that is read (both branches of the if-let)
ReadField(item, batch, limit, st) ==
    IF "compression" \in batch.broken
    THEN [ok |-> FALSE, err |-> Oos("InvalidFlatbufferCompression"), st |-> st]
    ELSE LET r == Read(batch, item.at, item.field, limit, st.cur)
             tr == Append(st.trace, [op |-> "read", at |-> item.at, cur |-> st.cur])
         IN IF r.ok
            THEN [ok |-> TRUE, err |-> NoErr,
                  st |-> [columns |-> Append(st.columns, r.array), trace |-> tr, cur |-> r.cur]]
            ELSE [ok |-> FALSE, err |-> r.err, st |-> [st EXCEPT !.trace = tr]]

\* a bug variant: a field outside the projection is dropped without a skip
SkipFieldOmitted(item, batch, st) == [ok |-> TRUE, err |-> NoErr, st |-> st]

\* the closure's NotSelected branch
SkipField(item, batch, st) ==
    LET r == Skip(batch, item.at, item.field, st.cur)
        tr == Append(st.trace, [op |-> "skip", at |-> item.at, cur |-> st.cur])
    IN IF r.ok
       THEN [ok |-> TRUE, err |-> NoErr, st |-> [st EXCEPT !.trace = tr, !.cur = r.cur]]
       ELSE [ok |-> FALSE, err |-> r.err, st |-> [st EXCEPT !.trace = tr]]

RECURSIVE ProjectedColumns(_, _, _, _)
\* projection.map(..).filter_map(..).collect::<PolarsResult<Vec<_>>>()?: lazily
\* pulls one tagged item at a time and stops at the first Err
ProjectedColumns(it, batch, limit, st) ==
    LET n == IterNext(it)
    IN IF n.panicked THEN [status |-> "panic", err |-> NoErr, st |-> st]
       ELSE IF n.res = <<>> THEN [status |-> "ok", err |-> NoErr, st |-> st]
       ELSE LET r == IF n.res[1].tag = "Selected"
                     THEN ReadField(n.res[1].item, batch, limit, st)
                     ELSE SkipField(n.res[1].item, batch, st)
            IN IF ~r.ok THEN [status |-> "err", err |-> r.err, st |-> r.st]
               ELSE ProjectedColumns(n.it, batch, limit, r.st)

RECURSIVE PlainColumnsKeepGoing(_, _, _, _)
\* a bug variant: every field is read and the first error is reported at the end
PlainColumnsKeepGoing(items, batch, limit, st) ==
    IF items = <<>> THEN [status |-> "ok", err |-> NoErr, st |-> st]
    ELSE LET r == ReadField(Head(items), batch, limit, st)
             rest == PlainColumnsKeepGoing(Tail(items), batch, limit, r.st)
         IN IF ~r.ok THEN [status |-> "err", err |-> r.err, st |-> rest.st]
            ELSE rest

RECURSIVE PlainColumns(_, _, _, _)
\* the unprojected branch: read every pair in schema order, stop at the first Err
PlainColumns(items, batch, limit, st) ==
    IF items = <<>> THEN [status |-> "ok", err |-> NoErr, st |-> st]
    ELSE LET r == ReadField(Head(items), batch, limit, st)
         IN IF ~r.ok THEN [status |-> "err", err |-> r.err, st |-> r.st]
            ELSE PlainColumns(Tail(items), batch, limit, r.st)

\* let columns = if let Some(projection) = projection { .. } else { .. }
Columns(batch, fs, ipcs, projection, limit) ==
    LET st0 == [columns |-> <<>>, trace |-> <<>>, cur |-> ZeroCursor]
    IN IF projection # Absent
       THEN LET new == IterNew(projection[1], ZipFields(fs, ipcs))
            IN IF new.panicked THEN [status |-> "panic", err |-> NoErr, st |-> st0]
               ELSE ProjectedColumns(new.it, batch, limit, st0)
       ELSE PlainColumns(ZipFields(fs, ipcs), batch, limit, st0)

\* a bug variant: the row limit is not applied to the batch length
ClipLengthIgnoresLimit(length, limit) == length

\* let length = limit.map(|limit| limit.min(length)).unwrap_or(length)
ClipLength(length, limit) == IF limit = Absent THEN length ELSE Min(limit[1], length)

\* the tail of read_record_batch: length, schema and RecordBatchT::try_new
Finish(batch, fs, projection, limit, st) ==
    IF "length" \in batch.broken THEN Panicked(st.trace)
    ELSE IF batch.length < 0 THEN Failed(Oos("NegativeFooterLength"), st.trace)
    ELSE LET length == ClipLength(batch.length, limit)
             schema == IF projection = Absent THEN [ok |-> TRUE, schema |-> fs]
                       ELSE TryProjectIndices(fs, projection[1])
         IN IF ~schema.ok THEN Panicked(st.trace)
            ELSE LET b == TryNew(length, schema.schema, st.columns)
                 IN IF b.ok THEN Returned(b.batch, st.trace) ELSE Failed(b.err, st.trace)

\* read_record_batch
ReadRecordBatch(batch, fs, ipcs, projection, limit, file_size, overflow_checks) ==
    IF Len(fs) # Len(ipcs) THEN Panicked(<<>>)
    ELSE IF "buffers" \in batch.broken THEN Failed(Oos("InvalidFlatbufferBuffers"), <<>>)
    ELSE IF "buffers_missing" \in batch.broken THEN Failed(Oos("MissingMessageBuffers"), <<>>)
    ELSE IF "variadic" \in batch.broken
    THEN Failed(Oos("InvalidFlatbufferRecordBatches"), <<>>)
    ELSE LET sum == SumBuffers(batch.buffers, 0, overflow_checks)
         IN IF sum.status = "panic" THEN Panicked(<<>>)
            ELSE IF sum.status = "err" THEN Failed(Oos("NegativeFooterLength"), <<>>)
            ELSE IF sum.value > file_size THEN Failed(Oos("InvalidBuffersLength"), <<>>)
            ELSE IF "nodes" \in batch.broken THEN Failed(Oos("InvalidFlatbufferNodes"), <<>>)
            ELSE IF "nodes_missing" \in batch.broken
            THEN Failed(Oos("MissingMessageNodes"), <<>>)
            ELSE LET cols == Columns(batch, fs, ipcs, projection, limit)
                 IN IF cols.status = "panic" THEN Panicked(cols.st.trace)
                    ELSE IF cols.status = "err" THEN Failed(cols.err, cols.st.trace)
                    ELSE Finish(batch, fs, projection, limit, cols.st)

(* ------------------- first_dict_field / read_dictionary ----------------- *)

NotFound == [panicked |-> FALSE, found |-> <<>>]
Found(field, ipc_field) ==
    [panicked |-> FALSE, found |-> <<[field |-> field, ipc_field |-> ipc_field]>>]
SearchPanicked == [panicked |-> TRUE, found |-> <<>>]

RECURSIVE FindFirstDictField(_, _, _)
RECURSIVE FindFirstDictFieldD(_, _, _)
RECURSIVE FindInChildren(_, _, _)

\* a bug variant: a later child overrides an earlier match
FindInChildrenLast(id, children, ipc_children) ==
    IF children = <<>> \/ ipc_children = <<>> THEN NotFound
    ELSE LET rest == FindInChildren(id, Tail(children), Tail(ipc_children))
         IN IF rest.panicked \/ rest.found # <<>> THEN rest
            ELSE FindFirstDictField(id, Head(children), Head(ipc_children))

\* for (field, ipc_field) in fields.iter().zip(ipc_field.fields.iter()):
\* the first child, in declared order, under which the id is found
FindInChildren(id, children, ipc_children) ==
    IF children = <<>> \/ ipc_children = <<>> THEN NotFound
    ELSE LET f == FindFirstDictField(id, Head(children), Head(ipc_children))
         IN IF f.panicked \/ f.found # <<>> THEN f
            ELSE FindInChildren(id, Tail(children), Tail(ipc_children))

\* find_first_dict_field_d
FindFirstDictFieldD(id, dtype, ipc_field) ==
    CASE dtype.kind = "Dictionary" -> FindFirstDictFieldD(id, dtype.inner[1], ipc_field)
      [] dtype.kind \in {"List", "LargeList", "FixedSizeList", "Map"} ->
            IF ipc_field.fields = <<>> THEN SearchPanicked
            ELSE FindFirstDictField(id, dtype.fields[1], ipc_field.fields[1])
      [] dtype.kind \in {"Struct", "Union"} -> FindInChildren(id, dtype.fields, ipc_field.fields)
      [] OTHER -> NotFound

\* find_first_dict_field
FindFirstDictField(id, field, ipc_field) ==
    IF ipc_field.dictionary_id = Some(id) THEN Found(field, ipc_field)
    ELSE FindFirstDictFieldD(id, field.dtype, ipc_field)

\* first_dict_field: Ok((field, ipc_field)), Err(InvalidId), or the assert_eq panic
FirstDictField(id, fs, ipcs) ==
    IF Len(fs) # Len(ipcs) THEN [status |-> "panic", err |-> NoErr, found |-> <<>>]
    ELSE LET f == FindInChildren(id, fs, ipcs)
         IN IF f.panicked THEN [status |-> "panic", err |-> NoErr, found |-> <<>>]
            ELSE IF f.found = <<>>
            THEN [status |-> "err", err |-> Oos("InvalidId"), found |-> <<>>]
            ELSE [status |-> "ok", err |-> NoErr, found |-> f.found]

\* a bug variant: an entry already in the cache is kept
InsertKeepsExisting(dicts, id, array) ==
    IF id \in DOMAIN dicts THEN dicts
    ELSE [k \in (DOMAIN dicts) \cup {id} |-> IF k = id THEN array ELSE dicts[k]]

\* dictionaries.insert(id, array): the entry of the id is replaced
Insert(dicts, id, array) ==
    [k \in (DOMAIN dicts) \cup {id} |-> IF k = id THEN array ELSE dicts[k]]

\* the outcome of read_dictionary: the cache afterwards and the steps it took
DictOutcome(status, err, dicts, steps) ==
    [status |-> status, err |-> err, dictionaries |-> dicts, steps |-> steps]

\* a bug variant: the id is entered into the cache before its payload is decoded
ResolveDictionaryInsertsEarly(batch, fs, ipcs, dicts, file_size, overflow_checks) ==
    IF "id" \in batch.broken
    THEN DictOutcome("err", Oos("InvalidFlatbufferId"), dicts, <<>>)
    ELSE LET first == FirstDictField(batch.id, fs, ipcs)
         IN IF first.status = "panic" THEN DictOutcome("panic", NoErr, dicts, <<"search">>)
            ELSE IF first.status = "err" THEN DictOutcome("err", first.err, dicts, <<"search">>)
            ELSE IF "data" \in batch.broken
            THEN DictOutcome("err", Oos("InvalidFlatbufferData"), dicts, <<"search">>)
            ELSE IF "data_missing" \in batch.broken
            THEN DictOutcome("err", Oos("MissingData"), dicts, <<"search">>)
            ELSE IF first.found[1].field.dtype.kind # "Dictionary"
            THEN DictOutcome("err", Oos("InvalidIdDataType"), dicts, <<"search">>)
            ELSE LET value_type == first.found[1].field.dtype.inner[1]
                     early == Insert(dicts, batch.id, [of |-> "", len |-> 0, data |-> 0])
                     r == ReadRecordBatch(batch.data, <<Field("", value_type)>>,
                                          <<first.found[1].ipc_field>>, Absent, Absent,
                                          file_size, overflow_checks)
                 IN IF r.status = "panic"
                    THEN DictOutcome("panic", NoErr, early, <<"search", "decode">>)
                    ELSE IF r.status = "err"
                    THEN DictOutcome("err", r.err, early, <<"search", "decode">>)
                    ELSE DictOutcome("ok", NoErr,
                                     Insert(early, batch.id,
                                            r.batch.arrays[Len(r.batch.arrays)]),
                                     <<"search", "decode">>)

\* read_dictionary after the delta check: id, search, payload, value type,
\* decode of the one-field batch and insertion into the cache
ResolveDictionary(batch, fs, ipcs, dicts, file_size, overflow_checks) ==
    IF "id" \in batch.broken
    THEN DictOutcome("err", Oos("InvalidFlatbufferId"), dicts, <<>>)
    ELSE LET first == FirstDictField(batch.id, fs, ipcs)
         IN IF first.status = "panic" THEN DictOutcome("panic", NoErr, dicts, <<"search">>)
            ELSE IF first.status = "err" THEN DictOutcome("err", first.err, dicts, <<"search">>)
            ELSE IF "data" \in batch.broken
            THEN DictOutcome("err", Oos("InvalidFlatbufferData"), dicts, <<"search">>)
            ELSE IF "data_missing" \in batch.broken
            THEN DictOutcome("err", Oos("MissingData"), dicts, <<"search">>)
            ELSE IF first.found[1].field.dtype.kind # "Dictionary"
            THEN DictOutcome("err", Oos("InvalidIdDataType"), dicts, <<"search">>)
            ELSE LET value_type == first.found[1].field.dtype.inner[1]
                     r == ReadRecordBatch(batch.data, <<Field("", value_type)>>,
                                          <<first.found[1].ipc_field>>, Absent, Absent,
                                          file_size, overflow_checks)
                 IN IF r.status = "panic"
                    THEN DictOutcome("panic", NoErr, dicts, <<"search", "decode">>)
                    ELSE IF r.status = "err"
                    THEN DictOutcome("err", r.err, dicts, <<"search", "decode">>)
                    ELSE DictOutcome("ok", NoErr,
                                     Insert(dicts, batch.id,
                                            r.batch.arrays[Len(r.batch.arrays)]),
                                     <<"search", "decode">>)

\* a bug variant: the is-delta flag is not looked at and the batch replaces the entry
ReadDictionaryIgnoresDelta(batch, fs, ipcs, dicts, file_size, overflow_checks) ==
    ResolveDictionary(batch, fs, ipcs, dicts, file_size, overflow_checks)

\* read_dictionary
ReadDictionary(batch, fs, ipcs, dicts, file_size, overflow_checks) ==
    IF "is_delta" \in batch.broken
    THEN DictOutcome("err", Oos("InvalidFlatbufferIsDelta"), dicts, <<>>)
    ELSE IF batch.is_delta
    THEN DictOutcome("err", ComputeError("delta dictionary batches not supported"), dicts, <<>>)
    ELSE ResolveDictionary(batch, fs, ipcs, dicts, file_size, overflow_checks)

(* ------------------ prepare_projection / apply_projection --------------- *)

\* indices after indices.sort_unstable_by_key(|&i| &projection[i]): the 0-based
\* positions of `projection` ordered by the value they hold (ties, which the
\* unstable sort may order either way, always end in the duplicate panic)
SortedIndices(projection) ==
    LET k == Len(projection)
        Before(j, i) == projection[j] < projection[i] \/ (projection[j] = projection[i] /\ j < i)
        Rank(i) == 1 + Cardinality({j \in 1..k : Before(j, i)})
    IN [s \in 1..k |-> (CHOOSE i \in 1..k : Rank(i) = s) - 1]

PlanOf(columns, map, schema) ==
    [panicked |-> FALSE, columns |-> columns, map |-> map, schema |-> schema]
PlanPanicked == [panicked |-> TRUE, columns |-> <<>>, map |-> <<>>, schema |-> <<>>]

\* a bug variant: the map is keyed by the requested position
IndexMapInverted(indices) ==
    [new_index \in 0..(Len(indices) - 1) |->
        (CHOOSE s \in 1..Len(indices) : indices[s] = new_index) - 1]

\* the fold over indices.iter().copied().enumerate(): the entry (index, new_index)
\* has the position in the sorted list as key and the requested position as value
IndexMap(indices) == [index \in 0..(Len(indices) - 1) |-> indices[index + 1]]

\* a bug variant: the check accepts equal neighbours
UniqueCheckAcceptsEqual(sorted) == \E s \in 2..Len(sorted) : ~(sorted[s - 1] <= sorted[s])

\* the assertion "The projection on IPC must not contain duplicates" fails
UniqueCheckFails(sorted) == \E s \in 2..Len(sorted) : ~(sorted[s - 1] < sorted[s])

\* prepare_projection: ProjectionInfo {columns, map, schema}, or a panic
PrepareProjection(schema, projection) ==
    IF \E i \in 1..Len(projection) : projection[i] >= Len(schema)
    THEN PlanPanicked
    ELSE LET indices == SortedIndices(projection)
             map == IndexMap(indices)
             sorted == [s \in 1..Len(indices) |-> projection[indices[s] + 1]]
         IN IF UniqueCheckFails(sorted)
            THEN PlanPanicked
            ELSE PlanOf(sorted, map,
                        [i \in 1..Len(projection) |-> schema[projection[i] + 1]])

\* a bug variant: the copy runs from `new` to `old`
ApplyProjectionSwapped(b, map) ==
    LET n == Len(b.arrays)
    IN IF \E old \in DOMAIN map : old >= n \/ map[old] >= n \/ map[old] >= Len(b.schema)
       THEN [panicked |-> TRUE, batch |-> NoBatch]
       ELSE LET Src(j) == IF j \in DOMAIN map THEN map[j] ELSE j
            IN [panicked |-> FALSE,
                batch |-> RowBatch(b.length,
                                   [j \in 1..Len(b.schema) |-> b.schema[Src(j - 1) + 1]],
                                   [j \in 1..n |-> b.arrays[Src(j - 1) + 1]])]

\* a bug variant: the length of the result is taken from its first array
ApplyProjectionLengthFromArrays(b, map) ==
    LET n == Len(b.arrays)
    IN IF \E old \in DOMAIN map : old >= n \/ map[old] >= n \/ map[old] >= Len(b.schema)
       THEN [panicked |-> TRUE, batch |-> NoBatch]
       ELSE LET Src(j) == IF \E old \in DOMAIN map : map[old] = j
                          THEN CHOOSE old \in DOMAIN map : map[old] = j
                          ELSE j
                arrays == [j \in 1..n |-> b.arrays[Src(j - 1) + 1]]
            IN [panicked |-> FALSE,
                batch |-> RowBatch(IF n = 0 THEN 0 ELSE arrays[1].len,
                                   [j \in 1..Len(b.schema) |-> b.schema[Src(j - 1) + 1]],
                                   arrays)]

\* apply_projection: for every (old, new) of the map, position `new` of the
\* result takes the field and the array at position `old` of the chunk
\* (defined for injective maps: the hash map's iteration order is unspecified)
ApplyProjection(b, map) ==
    LET n == Len(b.arrays)
    IN IF \E old \in DOMAIN map : old >= n \/ map[old] >= n \/ map[old] >= Len(b.schema)
       THEN [panicked |-> TRUE, batch |-> NoBatch]
       ELSE LET Src(j) == IF \E old \in DOMAIN map : map[old] = j
                          THEN CHOOSE old \in DOMAIN map : map[old] = j
                          ELSE j
            IN [panicked |-> FALSE,
                batch |-> RowBatch(b.length,
                                   [j \in 1..Len(b.schema) |-> b.schema[Src(j - 1) + 1]],
                                   [j \in 1..n |-> b.arrays[Src(j - 1) + 1]])]

(* --------------------------- inputs of the runs ------------------------- *)

\* largest number of top-level schema fields
MaxFields == 3
\* largest number of buffer descriptors of a batch in the size-check runs
MaxBuffers == 3
\* row count carried by the field nodes of the enumerated batches
NodeRows == 2

ColumnName(i) == <<"a", "b", "c", "d", "e", "f", "g", "h">>[i]

ColumnType(i) ==
    CASE i % 3 = 1 -> Int32
      [] i % 3 = 2 -> Utf8View
      [] OTHER -> StructOf(<<Field("x", Int32), Field("y", Int32)>>)

RECURSIVE PlainIpc(_)
\* IPC metadata parallel to a data type, declaring no dictionary id
PlainIpc(dtype) == IpcField(Absent, [i \in 1..Len(dtype.fields) |-> PlainIpc(dtype.fields[i].dtype)])

DecodeSchema(n) == [i \in 1..n |-> Field(ColumnName(i), ColumnType(i))]

Statuses == {"ok", "bad_data", "bad_meta"}

Batch(buffers, broken, length, cols) ==
    [buffers |-> buffers, broken |-> broken, length |-> length, rows |-> NodeRows,
     cols |-> cols, data |-> 0]

Call(batch, projection, limit, file_size, overflow_checks) ==
    [op |-> "read", batch |-> batch, projection |-> projection, limit |-> limit,
     file_size |-> file_size, overflow_checks |-> overflow_checks,
     ret |-> ReadRecordBatch(batch, fields, ipc_fields, projection, limit, file_size,
                             overflow_checks)]

(* ------------------------------ actions -------------------------------- *)

CollectProjection ==
    /\ tagged = NotCalled
    /\ \E projection \in SeqsUpTo(0..MaxPos, MaxProj), n \in 0..MaxSrc :
        tagged' = [op |-> "collect", projection |-> projection, src |-> Source(n),
                   ret |-> IterCollect(projection, Source(n))]
    /\ UNCHANGED <<fields, ipc_fields, dictionaries, plan, chunk, applied, dict_ret>>

InitIter ==
    /\ fields = <<>>
    /\ ipc_fields = <<>>
    /\ dictionaries = <<>>
    /\ plan = NotCalled
    /\ chunk = NotCalled
    /\ applied = NotCalled
    /\ tagged = NotCalled
    /\ dict_ret = NotCalled

NextIter == CollectProjection

SpecIter == InitIter /\ [][NextIter]_vars


InitSchema ==
    /\ \E n \in 0..MaxFields :
        /\ fields = DecodeSchema(n)
        /\ ipc_fields = [i \in 1..n |-> PlainIpc(ColumnType(i))]
    /\ dictionaries = <<>>
    /\ plan = NotCalled
    /\ chunk = NotCalled
    /\ applied = NotCalled
    /\ tagged = NotCalled
    /\ dict_ret = NotCalled

\* the caller plans a requested column list once per stream
PlanProjection ==
    /\ plan = NotCalled
    /\ chunk = NotCalled
    /\ \E requested \in SeqsUpTo(0..Len(fields), MaxProj) :
        plan' = [op |-> "prepare", requested |-> requested,
                 ret |-> PrepareProjection(fields, requested)]
    /\ UNCHANGED <<fields, ipc_fields, dictionaries, chunk, applied, tagged, dict_ret>>

\* one batch is decoded with the plan's sorted column list
DecodeWithPlan ==
    /\ plan # NotCalled
    /\ ~plan.ret.panicked
    /\ chunk = NotCalled
    /\ \E cols \in [1..Len(fields) -> Statuses], limit \in {Absent, Some(1)} :
        chunk' = Call(Batch(<<1, 1>>, {}, NodeRows, cols), Some(plan.ret.columns), limit,
                      U64Max, FALSE)
    /\ UNCHANGED <<fields, ipc_fields, dictionaries, plan, applied, tagged, dict_ret>>

\* the caller restores the requested order
ApplyPlan ==
    /\ plan # NotCalled
    /\ chunk # NotCalled
    /\ chunk.ret.status = "ok"
    /\ applied = NotCalled
    /\ applied' = [op |-> "apply", ret |-> ApplyProjection(chunk.ret.batch, plan.ret.map)]
    /\ UNCHANGED <<fields, ipc_fields, dictionaries, plan, chunk, tagged, dict_ret>>

\* one batch is decoded with no projection
DecodePlain ==
    /\ plan = NotCalled
    /\ chunk = NotCalled
    /\ \E cols \in [1..Len(fields) -> Statuses], limit \in {Absent, Some(1)} :
        chunk' = Call(Batch(<<1, 1>>, {}, NodeRows, cols), Absent, limit, U64Max, FALSE)
    /\ UNCHANGED <<fields, ipc_fields, dictionaries, plan, applied, tagged, dict_ret>>

\* the identity map on the positions of a chunk
IdentityMap(n) == [i \in 0..(n - 1) |-> i]

\* apply_projection with the identity map on an unprojected chunk
ApplyIdentity ==
    /\ plan = NotCalled
    /\ chunk # NotCalled
    /\ chunk.ret.status = "ok"
    /\ applied = NotCalled
    /\ applied' = [op |-> "apply_identity",
                   ret |-> ApplyProjection(chunk.ret.batch,
                                           IdentityMap(Len(chunk.ret.batch.arrays)))]
    /\ UNCHANGED <<fields, ipc_fields, dictionaries, plan, chunk, tagged, dict_ret>>

NextPlan == PlanProjection \/ DecodeWithPlan \/ ApplyPlan \/ DecodePlain \/ ApplyIdentity

SpecPlan == InitSchema /\ [][NextPlan]_vars

\* read_record_batch on any projection list, ordered or not
DecodeBatch ==
    /\ chunk = NotCalled
    /\ \E projection \in {Absent} \cup {Some(p) : p \in SeqsUpTo(0..Len(fields), MaxProj)},
          cols \in [1..Len(fields) -> Statuses],
          limit \in {Absent, Some(1)},
          broken \in {{}, {"compression"}} :
        chunk' = Call(Batch(<<1, 1>>, broken, NodeRows, cols), projection, limit, U64Max, FALSE)
    /\ UNCHANGED <<fields, ipc_fields, dictionaries, plan, applied, tagged, dict_ret>>

NextDecode == DecodeBatch

SpecDecode == InitSchema /\ [][NextDecode]_vars


\* largest declared row length and row limit of the length runs
MaxRows == 3

\* read_record_batch over declared lengths and row limits
DecodeLength ==
    /\ chunk = NotCalled
    /\ \E projection \in {Absent, Some(<<0>>)},
          cols \in [1..Len(fields) -> {"ok", "bad_data"}],
          length \in (-1)..MaxRows,
          limit \in {Absent} \cup {Some(l) : l \in 0..(MaxRows + 1)} :
        chunk' = Call(Batch(<<1, 1>>, {}, length, cols), projection, limit, U64Max, FALSE)
    /\ UNCHANGED <<fields, ipc_fields, dictionaries, plan, applied, tagged, dict_ret>>

NextLength == DecodeLength

SpecLength == InitSchema /\ [][NextLength]_vars

\* declared buffer lengths (i64): negative, zero, small and the largest value
BufferLengths == {-1, 0, 1, I64Max}

\* read_record_batch over buffer descriptor lists, file sizes and both builds
DecodeSized ==
    /\ chunk = NotCalled
    /\ \E projection \in {Absent, Some(<<0>>)},
          buffers \in SeqsUpTo(BufferLengths, MaxBuffers),
          file_size \in 0..U64Max,
          overflow_checks \in BOOLEAN :
        chunk' = Call(Batch(buffers, {}, NodeRows, [i \in 1..Len(fields) |-> "ok"]),
                      projection, Absent, file_size, overflow_checks)
    /\ UNCHANGED <<fields, ipc_fields, dictionaries, plan, applied, tagged, dict_ret>>

NextSize == DecodeSized

SpecSize == InitSchema /\ [][NextSize]_vars


\* largest number of top-level fields of the schemas searched for a dictionary id
MaxDictFields == 2
\* largest number of read_dictionary calls on one Dictionary Cache
MaxCalls == 2

Shape(dtype, ipc_field) == [dtype |-> dtype, ipc_field |-> ipc_field]

\* field shapes with their parallel IPC metadata: plain and dictionary columns,
\* dictionaries below a list, a struct, a union and a dictionary's value type,
\* and non-dictionary fields whose metadata declares an id
Shapes ==
    { Shape(Int32, IpcField(Absent, <<>>)),
      Shape(DictionaryOf(Utf8View), IpcField(Some(1), <<>>)),
      Shape(DictionaryOf(Int32), IpcField(Some(2), <<>>)),
      Shape(Int32, IpcField(Some(1), <<>>)),
      Shape(ListOf(Field("item", DictionaryOf(Utf8View))),
            IpcField(Absent, <<IpcField(Some(1), <<>>)>>)),
      Shape(FixedSizeListOf(Field("item", DictionaryOf(Int32))),
            IpcField(Absent, <<IpcField(Some(2), <<>>)>>)),
      Shape(StructOf(<<Field("x", Int32), Field("y", DictionaryOf(Utf8View))>>),
            IpcField(Absent, <<IpcField(Some(1), <<>>), IpcField(Some(1), <<>>)>>)),
      Shape(DictionaryOf(StructOf(<<Field("k", DictionaryOf(Int32))>>)),
            IpcField(Some(2), <<IpcField(Some(1), <<>>)>>)),
      Shape(UnionOf(<<Field("u", DictionaryOf(Int32)), Field("v", DictionaryOf(Utf8View))>>),
            IpcField(Absent, <<IpcField(Some(2), <<>>), IpcField(Some(1), <<>>)>>)),
      Shape(MapOf(Field("entries", StructOf(<<Field("key", Int32),
                                              Field("value", DictionaryOf(Int32))>>))),
            IpcField(Absent, <<IpcField(Absent, <<IpcField(Absent, <<>>),
                                                  IpcField(Some(2), <<>>)>>)>>)) }

\* dictionary ids of the dictionary batches: two the shapes declare, one they do not
DictIds == {1, 2, 3}

\* the record batch inside a dictionary batch: payload `data`, readable or corrupt
DictData(data, status) ==
    [buffers |-> <<1, 1>>, broken |-> {}, length |-> NodeRows, rows |-> NodeRows,
     cols |-> <<status>>, data |-> data]

DictBatch(id, is_delta, broken, data) ==
    [id |-> id, is_delta |-> is_delta, broken |-> broken, data |-> data]

DictBatches ==
    { DictBatch(id, flags[1], flags[2], DictData(payload[1], payload[2])) :
        id \in DictIds,
        flags \in {<<FALSE, {}>>, <<TRUE, {}>>, <<FALSE, {"data_missing"}>>,
                   <<TRUE, {"data_missing"}>>},
        payload \in {<<1, "ok">>, <<2, "ok">>, <<1, "bad_data">>} }

InitSearch ==
    /\ \E n \in 0..MaxDictFields : \E shapes \in [1..n -> Shapes] :
        /\ fields = [i \in 1..n |-> Field(ColumnName(i), shapes[i].dtype)]
        /\ ipc_fields = [i \in 1..n |-> shapes[i].ipc_field]
    /\ dictionaries = <<>>
    /\ plan = NotCalled
    /\ chunk = NotCalled
    /\ applied = NotCalled
    /\ tagged = NotCalled
    /\ dict_ret = NotCalled

\* read_dictionary on the session's Dictionary Cache
Resolve(batch, n) ==
    LET ret == ReadDictionary(batch, fields, ipc_fields, dictionaries, U64Max, FALSE)
    IN /\ dict_ret' = [op |-> "read_dictionary", n |-> n, batch |-> batch,
                       before |-> dictionaries,
                       first |-> FirstDictField(batch.id, fields, ipc_fields),
                       ret |-> ret]
       /\ dictionaries' = ret.dictionaries
       /\ UNCHANGED <<fields, ipc_fields, plan, chunk, applied, tagged>>

\* one dictionary batch resolved against any schema
ResolveOnce ==
    /\ dict_ret = NotCalled
    /\ \E batch \in DictBatches : Resolve(batch, 1)

NextSearch == ResolveOnce

SpecSearch == InitSearch /\ [][NextSearch]_vars

\* the schemas of the sessions on which several dictionary batches are resolved
SessionShapes ==
    { <<Shape(DictionaryOf(Utf8View), IpcField(Some(1), <<>>)),
        Shape(DictionaryOf(Int32), IpcField(Some(2), <<>>))>>,
      <<Shape(Int32, IpcField(Some(1), <<>>)),
        Shape(DictionaryOf(Int32), IpcField(Some(2), <<>>))>> }

InitDict ==
    /\ \E shapes \in SessionShapes :
        /\ fields = [i \in 1..Len(shapes) |-> Field(ColumnName(i), shapes[i].dtype)]
        /\ ipc_fields = [i \in 1..Len(shapes) |-> shapes[i].ipc_field]
    /\ dictionaries = <<>>
    /\ plan = NotCalled
    /\ chunk = NotCalled
    /\ applied = NotCalled
    /\ tagged = NotCalled
    /\ dict_ret = NotCalled

\* the dictionary batches of a stream, resolved one after the other
ResolveNext ==
    LET n == IF dict_ret = NotCalled THEN 0 ELSE dict_ret.n
    IN /\ n < MaxCalls
       /\ \E batch \in DictBatches : Resolve(batch, n + 1)

\* read_record_batch during the session: it borrows the cache immutably
DecodeInSession ==
    /\ chunk = NotCalled
    /\ \E projection \in {Absent, Some(<<1>>)}, cols \in [1..Len(fields) -> {"ok", "bad_data"}] :
        chunk' = Call(Batch(<<1, 1>>, {}, NodeRows, cols), projection, Absent, U64Max, FALSE)
    /\ UNCHANGED <<fields, ipc_fields, dictionaries, plan, applied, tagged, dict_ret>>

NextDict == ResolveNext \/ DecodeInSession

SpecDict == InitDict /\ [][NextDict]_vars


\* the binary-metadata accessors of a record batch that can fail
RecordAccessors ==
    {"buffers", "buffers_missing", "variadic", "nodes", "nodes_missing", "compression",
     "length"}

\* the binary-metadata accessors of a dictionary batch that can fail
DictAccessors == {"is_delta", "id", "data", "data_missing"}

\* read_record_batch on a batch some of whose accessors fail
DecodeBroken ==
    /\ chunk = NotCalled
    /\ dict_ret = NotCalled
    /\ \E projection \in {Absent, Some(<<0>>), Some(<<1>>)},
          broken \in {b \in SUBSET RecordAccessors : Cardinality(b) <= 2},
          cols \in [1..Len(fields) -> {"ok", "bad_data"}] :
        chunk' = Call(Batch(<<1, 1>>, broken, NodeRows, cols), projection, Absent, U64Max, FALSE)
    /\ UNCHANGED <<fields, ipc_fields, dictionaries, plan, applied, tagged, dict_ret>>

\* read_dictionary on a dictionary batch some of whose accessors fail
ResolveBroken ==
    /\ chunk = NotCalled
    /\ dict_ret = NotCalled
    /\ \E id \in DictIds, is_delta \in BOOLEAN, broken \in SUBSET DictAccessors,
          inner \in {b \in SUBSET RecordAccessors : Cardinality(b) <= 1} :
        Resolve(DictBatch(id, is_delta, broken, [DictData(1, "ok") EXCEPT !.broken = inner]), 1)

NextAccess == DecodeBroken \/ ResolveBroken

SpecAccess == InitDict /\ [][NextAccess]_vars

(* ------------------------------- claims -------------------------------- *)

\* the precondition of the Projection Sequencer's contract
ValidWanted(projection, n) ==
    /\ Len(projection) > 0
    /\ StrictlyIncreasing(projection)
    /\ \A i \in 1..Len(projection) : projection[i] < n

\* C1: for a strictly increasing, non-empty wanted list inside [0,N) the
\* iterator emits the N source items in order, each tagged Selected exactly
\* when its 0-based position is wanted, so Selected count = wanted count.
C1_TagsMatchWanted ==
    (tagged.op = "collect" /\ ValidWanted(tagged.projection, Len(tagged.src))) =>
        LET out == tagged.ret.out
        IN /\ ~tagged.ret.panicked
           /\ Len(out) = Len(tagged.src)
           /\ \A i \in 1..Len(out) :
                /\ out[i].item = tagged.src[i]
                /\ (out[i].tag = "Selected") <=> ((i - 1) \in Range(tagged.projection))
                /\ out[i].tag \in {"Selected", "NotSelected"}
           /\ Cardinality({i \in 1..Len(out) : out[i].tag = "Selected"})
                = Len(tagged.projection)

\* a run with wanted positions 0 and 2 of a 4-item source: items follow the last wanted position
C1_Witness ==
    /\ tagged.op = "collect"
    /\ tagged.projection = <<0, 2>>
    /\ Len(tagged.src) = 4
    /\ ~tagged.ret.panicked
    /\ tagged.ret.out[3].tag = "Selected"
    /\ tagged.ret.out[4].tag = "NotSelected"

\* the column of the schema at 0-based position p, as read decodes it in the call c
DecodedColumn(c, p) == Read(c.batch, p, fields[p + 1], c.limit, ZeroCursor).array

\* C2: after prepare_projection, a decode with the plan's columns and
\* apply_projection with the plan's map, position i of the result holds the
\* field and the array of schema column requested[i]; the length is unchanged.
C2_RequestedOrderRestored ==
    applied.op = "apply" =>
        LET out == applied.ret.batch
            requested == plan.requested
        IN /\ ~applied.ret.panicked
           /\ out.length = chunk.ret.batch.length
           /\ Len(out.schema) = Len(requested)
           /\ Len(out.arrays) = Len(requested)
           /\ \A i \in 1..Len(requested) :
                /\ out.schema[i] = fields[requested[i] + 1]
                /\ out.arrays[i] = DecodedColumn(chunk, requested[i])

\* a three-column request whose sorted order is a 3-cycle away from the request
C2_Witness ==
    /\ applied.op = "apply"
    /\ plan.requested = <<2, 0, 1>>
    /\ plan.ret.columns = <<0, 1, 2>>
    /\ applied.ret.batch.arrays[1].of = "c"

FullRange(n) == [i \in 1..n |-> i - 1]

Outcome(r) == [status |-> r.status, err |-> r.err, batch |-> r.batch]

\* C3: read_record_batch with projection [0..N) gives the outcome (Row Batch or
\* error) of read_record_batch with no projection on the same batch.
C3_FullRangeIsUnprojected ==
    (chunk.op = "read" /\ chunk.projection = Some(FullRange(Len(fields)))) =>
        Outcome(chunk.ret) =
            Outcome(ReadRecordBatch(chunk.batch, fields, ipc_fields, Absent, chunk.limit,
                                    chunk.file_size, chunk.overflow_checks))

RECURSIVE SumOf(_)
\* the mathematical sum of a list of integers
SumOf(s) == IF s = <<>> THEN 0 ELSE Head(s) + SumOf(Tail(s))

\* C4: a batch whose declared buffer lengths sum to more than file_size is
\* rejected with a format-violation error before read or skip is invoked.
C4_OversizedRejectedBeforeRead ==
    (chunk.op = "read" /\ SumOf(chunk.batch.buffers) > chunk.file_size) =>
        /\ chunk.ret.status = "err"
        /\ chunk.ret.err.class = "oos"
        /\ chunk.ret.trace = <<>>

\* C5: a returned Row Batch has length min(declared, limit): the limit when it
\* is smaller than the declared length, the declared length otherwise.
C5_LengthIsClipped ==
    (chunk.op = "read" /\ chunk.ret.status = "ok") =>
        chunk.ret.batch.length =
            IF chunk.limit # Absent /\ chunk.limit[1] < chunk.batch.length
            THEN chunk.limit[1]
            ELSE chunk.batch.length

\* a batch of declared length 2 returned under a limit of 1, with a column in it
C5_Witness ==
    /\ chunk.op = "read"
    /\ chunk.ret.status = "ok"
    /\ chunk.batch.length = 2
    /\ chunk.limit = Some(1)
    /\ Len(chunk.ret.batch.arrays) > 0
    /\ chunk.ret.batch.length = 1

\* C7: an empty requested list plans to an empty column list, and decoding a
\* well-formed batch with it returns a Row Batch of the declared length with
\* no columns and an empty schema.
C7_EmptyProjectionDecodes ==
    (/\ plan # NotCalled
     /\ plan.requested = <<>>
     /\ chunk.op = "read"
     /\ \A i \in 1..Len(fields) : chunk.batch.cols[i] = "ok"
     /\ chunk.limit = Absent) =>
        /\ chunk.ret.status = "ok"
        /\ chunk.ret.batch = RowBatch(chunk.batch.length, <<>>, <<>>)

\* C8: read_record_batch panics exactly when its projection is not strictly
\* increasing.
C8_PanicIffNotIncreasing ==
    (chunk.op = "read" /\ chunk.projection # Absent) =>
        (chunk.ret.status = "panic" <=> ~StrictlyIncreasing(chunk.projection[1]))

\* the invocation logged in a trace entry fails on the batch
InvocationFails(batch, e) ==
    IF e.op = "read" THEN batch.cols[e.at + 1] # "ok" ELSE batch.cols[e.at + 1] = "bad_meta"

\* C10: fields are visited in schema order, and a failing read or skip ends the
\* decode: it is the last invocation, its error is returned unchanged and no
\* Row Batch is returned.
C10_FirstFailureEndsDecode ==
    chunk.op = "read" =>
        LET trace == chunk.ret.trace
        IN \A i \in 1..Len(trace) :
             /\ trace[i].at = i - 1
             /\ InvocationFails(chunk.batch, trace[i]) =>
                  /\ i = Len(trace)
                  /\ chunk.ret.status = "err"
                  /\ chunk.ret.err = DecodeErr(trace[i].op, trace[i].at)
                  /\ chunk.ret.batch = NoBatch

\* the second field's read fails after the first was skipped, a third field is left untouched
C10_Witness ==
    /\ chunk.op = "read"
    /\ chunk.projection = Some(<<1, 2>>)
    /\ Len(fields) = 3
    /\ chunk.batch.cols = <<"bad_data", "bad_data", "ok">>
    /\ Len(chunk.ret.trace) = 2
    /\ chunk.ret.err = DecodeErr("read", 1)

\* C6: a dictionary batch whose is-delta flag is set is rejected before the
\* schema is searched or the payload decoded, and the cache stays as it was.
C6_DeltaRejected ==
    (dict_ret.op = "read_dictionary" /\ dict_ret.batch.is_delta) =>
        /\ dict_ret.ret.status = "err"
        /\ dict_ret.ret.steps = <<>>
        /\ dictionaries = dict_ret.before

\* a delta batch with a known id and a readable payload, rejected on a non-empty cache
C6_Witness ==
    /\ dict_ret.op = "read_dictionary"
    /\ dict_ret.batch.is_delta
    /\ dict_ret.batch.id = 2
    /\ dict_ret.batch.data.cols = <<"ok">>
    /\ dict_ret.before # <<>>
    /\ dict_ret.ret.status = "err"

RECURSIVE PreOrder(_, _)
RECURSIVE PreOrderD(_, _)
RECURSIVE PreOrderAll(_, _)
\* the (field, IPC metadata) pairs of a field's tree in depth-first pre-order
PreOrder(field, ipc_field) ==
    <<[field |-> field, ipc_field |-> ipc_field]>> \o PreOrderD(field.dtype, ipc_field)

PreOrderD(dtype, ipc_field) ==
    CASE dtype.kind = "Dictionary" -> PreOrderD(dtype.inner[1], ipc_field)
      [] dtype.kind \in {"List", "LargeList", "FixedSizeList", "Map"} ->
            PreOrder(dtype.fields[1], ipc_field.fields[1])
      [] dtype.kind \in {"Struct", "Union"} -> PreOrderAll(dtype.fields, ipc_field.fields)
      [] OTHER -> <<>>

PreOrderAll(children, ipc_children) ==
    IF children = <<>> THEN <<>>
    ELSE PreOrder(Head(children), Head(ipc_children))
            \o PreOrderAll(Tail(children), Tail(ipc_children))

\* the positions of the pre-order walk of the schema that declare the id
Declaring(id) ==
    LET walk == PreOrderAll(fields, ipc_fields)
    IN {k \in 1..Len(walk) : walk[k].ipc_field.dictionary_id = Some(id)}

\* C9: first_dict_field returns the first field of the pre-order walk that
\* declares the id, and the invalid-id error exactly when none does;
\* read_dictionary fails when that first match is not dictionary-typed.
C9_FirstPreOrderMatch ==
    dict_ret.op = "read_dictionary" =>
        LET id == dict_ret.batch.id
            walk == PreOrderAll(fields, ipc_fields)
            hits == Declaring(id)
        IN /\ (hits = {}) <=> (dict_ret.first.status = "err")
           /\ hits = {} => dict_ret.first.err = Oos("InvalidId")
           /\ hits # {} =>
                LET k == CHOOSE k \in hits : \A j \in hits : k <= j
                IN /\ dict_ret.first.status = "ok"
                   /\ dict_ret.first.found = <<walk[k]>>
                   /\ walk[k].field.dtype.kind # "Dictionary" =>
                        /\ dict_ret.ret.status = "err"
                        /\ dictionaries = dict_ret.before

\* the first match is a non-dictionary struct child, a later child with the same id is a dictionary
C9_Witness ==
    /\ dict_ret.op = "read_dictionary"
    /\ dict_ret.batch.id = 1
    /\ ~dict_ret.batch.is_delta
    /\ dict_ret.batch.broken = {}
    /\ Cardinality(Declaring(1)) >= 2
    /\ dict_ret.first.status = "ok"
    /\ dict_ret.first.found[1].field = Field("x", Int32)
    /\ dict_ret.ret.err = Oos("InvalidIdDataType")

\* the dictionary batch with every accessor working
RepairedDict(b) == [b EXCEPT !.broken = {}, !.data.broken = {}]

\* C11: a failing metadata accessor of read_record_batch or read_dictionary
\* comes back as a format-violation error: whenever the outcome differs from
\* the outcome on the same batch with working accessors, it is an Err of the
\* out-of-spec class, never a panic.
C11_AccessFailuresAreOos ==
    /\ chunk.op = "read" =>
         (chunk.ret # ReadRecordBatch([chunk.batch EXCEPT !.broken = {}], fields, ipc_fields,
                                      chunk.projection, chunk.limit, chunk.file_size,
                                      chunk.overflow_checks)
            => (chunk.ret.status = "err" /\ chunk.ret.err.class = "oos"))
    /\ dict_ret.op = "read_dictionary" =>
         (dict_ret.ret # ReadDictionary(RepairedDict(dict_ret.batch), fields, ipc_fields,
                                        dict_ret.before, U64Max, FALSE)
            => (dict_ret.ret.status = "err" /\ dict_ret.ret.err.class = "oos"))

\* C12: prepare_projection panics exactly when the requested list holds a
\* duplicate or an index outside the schema; otherwise its columns are strictly
\* increasing and hold exactly the requested indices, its schema lists the
\* requested fields in requested order, and its map is a bijection on
\* 0..len-1.
C12_PlanIsSortedBijection ==
    plan.op = "prepare" =>
        LET requested == plan.requested
            k == Len(requested)
            ret == plan.ret
            duplicate == \E i, j \in 1..k : i # j /\ requested[i] = requested[j]
            outside == \E i \in 1..k : requested[i] >= Len(fields)
        IN /\ ret.panicked <=> (duplicate \/ outside)
           /\ ~ret.panicked =>
                /\ StrictlyIncreasing(ret.columns)
                /\ Len(ret.columns) = k
                /\ {ret.columns[s] : s \in 1..k} = {requested[i] : i \in 1..k}
                /\ ret.schema = [i \in 1..k |-> fields[requested[i] + 1]]
                /\ DOMAIN ret.map = 0..(k - 1)
                /\ {ret.map[s] : s \in DOMAIN ret.map} = 0..(k - 1)

C12_Witness ==
    /\ plan.op = "prepare"
    /\ plan.requested = <<2, 0, 1>>
    /\ ~plan.ret.panicked
    /\ plan.ret.columns = <<0, 1, 2>>

\* C13 as stated: the map takes each requested position r to the position of
\* requested[r] in the sorted columns.
C13_MapRequestedToSorted ==
    (plan.op = "prepare" /\ ~plan.ret.panicked) =>
        \A r \in 0..(Len(plan.requested) - 1) :
            plan.ret.columns[plan.ret.map[r] + 1] = plan.requested[r + 1]

\* C13: the map takes each position s of the sorted columns to the position
\* that column has in the requested list.
C13_MapSortedToRequested ==
    (plan.op = "prepare" /\ ~plan.ret.panicked) =>
        \A s \in 0..(Len(plan.requested) - 1) :
            plan.requested[plan.ret.map[s] + 1] = plan.ret.columns[s + 1]

C13_Witness ==
    /\ plan.op = "prepare"
    /\ plan.requested = <<1, 2, 0>>
    /\ ~plan.ret.panicked
    /\ plan.ret.map[0] = 2

\* C14: a successful read_dictionary leaves under its id the array decoded
\* from its own payload, whatever the cache held before (last write wins), and
\* leaves every other entry alone; when the cache already held the array of an
\* identical payload under that id, the cache is the same as before the call
\* (idempotent).
C14_LastWriteWins ==
    (dict_ret.op = "read_dictionary" /\ dict_ret.ret.status = "ok") =>
        LET id == dict_ret.batch.id
            before == dict_ret.before
        IN /\ DOMAIN dictionaries = (DOMAIN before) \cup {id}
           /\ dictionaries[id].data = dict_ret.batch.data.data
           /\ dictionaries[id].len = dict_ret.batch.data.rows
           /\ \A k \in (DOMAIN before) \ {id} : dictionaries[k] = before[k]
           /\ (id \in DOMAIN before /\ before[id].data = dict_ret.batch.data.data)
                => dictionaries = before

\* a second successful batch for an id replaces the array of the first
C14_Witness ==
    /\ dict_ret.op = "read_dictionary"
    /\ dict_ret.n = 2
    /\ dict_ret.ret.status = "ok"
    /\ dict_ret.batch.id \in DOMAIN dict_ret.before
    /\ dict_ret.before[dict_ret.batch.id].data = 1
    /\ dictionaries[dict_ret.batch.id].data = 2

\* C15: apply_projection with the identity map on a Row Batch decoded with no
\* projection returns the same length, schema and arrays.
C15_IdentityIsNoOp ==
    applied.op = "apply_identity" =>
        /\ ~applied.ret.panicked
        /\ applied.ret.batch = chunk.ret.batch

\* an unprojected three-column chunk goes through the identity map
C15_Witness ==
    /\ applied.op = "apply_identity"
    /\ chunk.projection = Absent
    /\ Len(chunk.ret.batch.arrays) = 3
    /\ applied.ret.batch.arrays[3].of = "c"

\* C16: with a valid projection the fields are processed once each in schema
\* order, by read when the position is in the projection and by skip
\* otherwise, up to the last field of the schema when nothing fails; the
\* cursors before each field are those of the unprojected decode of the same
\* batch before that field.
C16_CursorsStayInStep ==
    (/\ chunk.op = "read"
     /\ chunk.projection # Absent
     /\ ValidWanted(chunk.projection[1], Len(fields))) =>
        LET trace == chunk.ret.trace
            wanted == Range(chunk.projection[1])
            plain == ReadRecordBatch(chunk.batch, fields, ipc_fields, Absent, chunk.limit,
                                     chunk.file_size, chunk.overflow_checks).trace
        IN /\ \A i \in 1..Len(trace) :
                /\ trace[i].at = i - 1
                /\ trace[i].op = (IF (i - 1) \in wanted THEN "read" ELSE "skip")
           /\ chunk.ret.status = "ok" => Len(trace) = Len(fields)
           /\ \A i \in 1..Min(Len(trace), Len(plain)) : trace[i].cur = plain[i].cur

\* the middle column of three is projected: the third is skipped after it, at
\* the cursors the unprojected decode has before its third read
C16_Witness ==
    /\ chunk.op = "read"
    /\ chunk.projection = Some(<<1>>)
    /\ Len(fields) = 3
    /\ chunk.ret.status = "ok"
    /\ Len(chunk.ret.trace) = 3
    /\ chunk.ret.trace[3].op = "skip"
    /\ chunk.ret.trace[3].cur.buffers > chunk.ret.trace[2].cur.buffers
    /\ chunk.ret.trace[2].cur.buffers > 0

\* C17: in a session of read_record_batch and read_dictionary calls on one
\* cache, a step changes the cache only when it is a read_dictionary call that
\* returns success, and then only the entry of that batch's id; a
\* read_record_batch call and a failing read_dictionary call leave the cache
\* as it was.
C17_CacheChangesOnlyOnSuccess ==
    [][/\ chunk' # chunk => dictionaries' = dictionaries
       /\ (dict_ret' # dict_ret /\ dict_ret'.ret.status # "ok") => dictionaries' = dictionaries
       /\ dictionaries' # dictionaries =>
            /\ dict_ret' # dict_ret
            /\ dict_ret'.ret.status = "ok"
            /\ DOMAIN dictionaries' = (DOMAIN dictionaries) \cup {dict_ret'.batch.id}
            /\ \A k \in (DOMAIN dictionaries) \ {dict_ret'.batch.id} :
                 dictionaries'[k] = dictionaries[k]]_vars

\* a batch whose payload fails to decode came after a successful one and after
\* a read_record_batch call, and the cache still holds the first batch's entry
C17_Witness ==
    /\ dict_ret.op = "read_dictionary"
    /\ dict_ret.n = 2
    /\ dict_ret.ret.status = "err"
    /\ dict_ret.ret.steps = <<"search", "decode">>
    /\ dict_ret.batch.id \in DOMAIN dict_ret.before
    /\ chunk.op = "read"
    /\ dictionaries = dict_ret.before

\* C18: building a ProjectionIter over a source and draining it panics exactly
\* when the projection list is not strictly increasing, whatever the length of
\* the source.
C18_IterPanicsIffNotIncreasing ==
    tagged.op = "collect" =>
        (tagged.ret.panicked <=> ~StrictlyIncreasing(tagged.projection))

\* C19: a batch gets past the buffer-size check only if none of its declared
\* buffer lengths is negative and their sum as integers is at most file_size.
C19_SizeCheckIsSound ==
    (chunk.op = "read" /\ chunk.ret.status = "ok") =>
        /\ \A i \in 1..Len(chunk.batch.buffers) : chunk.batch.buffers[i] >= 0
        /\ SumOf(chunk.batch.buffers) <= chunk.file_size

====
